---- MODULE Spec2Model ----
(***************************************************************************)
(* Model of dashboard_new.py: three cached, retrying fetch functions       *)
(* (fetch_index_data_safe, fetch_stock_data_safe, metrics_table_safe) and  *)
(* the two Streamlit dashboards that call them on every script rerun.      *)
(*                                                                         *)
(* Numbers are integers.  Prices are whole numbers; the derived indicator  *)
(* columns are fixed-point values with Scale units per price unit.  A NaN   *)
(* cell is the record Null.                                                *)
(***************************************************************************)
EXTENDS Integers, Sequences, FiniteSets, TLC

\* ------------------------------------------------------------ constants
MaxAttempts == 5
Delay == 60
TTL == 3600
Window == 20
Span == 20

\* ------------------------------------------------------------ bounds
\* Longest price history the provider returns.
MaxRows == 21
\* Number of script reruns (render passes) explored.
MaxRenders == 3
\* How many entries of the index list the user can select.
NumIndices == 2
\* Fixed-point units per price unit in the indicator columns.
Scale == 100

\* ------------------------------------------------------------ names
indices == <<"^DJI", "^GSPC", "^IXIC", "^RUT">>
stocks == <<"AAPL", "MSFT", "GOOGL", "AMZN", "TSLA">>

Min(a, b) == IF a < b THEN a ELSE b

Indices == {indices[i] : i \in 1..Min(NumIndices, Len(indices))}
\* The stock dashboard is explored with the first ticker of its list.
Stocks == {stocks[1]}

FIndex == "fetch_index_data_safe"
FStock == "fetch_stock_data_safe"
FTable == "metrics_table_safe"

\* The cache key of st.cache_data: the decorated function and its argument.
Keys == ({FIndex} \X Indices) \cup ({FStock, FTable} \X Stocks)

OHLCV == {"Open", "High", "Low", "Close", "Volume"}
DerivedColumns == {"SMA_20", "EMA_20", "Volatility"}
MetricKeys == {"PE Ratio", "Dividend Yield", "Beta", "Market Cap"}
BalanceItems == <<"Total Assets", "Total Debt">>
IncomeItems == <<"Total Revenue", "EBITDA", "Basic EPS", "Operating Income",
                 "Operating Expense">>

\* ------------------------------------------------------------ cells
Null == [nan |-> TRUE, v |-> 0]
Num(x) == [nan |-> FALSE, v |-> x]

\* pd.DataFrame(): no columns, no rows.
EmptyFrame == [columns |-> {}, rows |-> <<>>]
\* DataFrame.empty: any axis of length 0.
IsEmpty(df) == df.columns = {} \/ Len(df.rows) = 0

\* ------------------------------------------------------------ exceptions
\* Result of evaluating an expression: a value, or an exception raised.
Ok(v) == [exc |-> "none", value |-> v]
Raise(e) == [exc |-> e, value |-> <<>>]
Raised(r) == r.exc # "none"

\* Exception classes the try bodies can raise; all derive from Exception.
Exceptions == {"ConnectionError", "KeyError", "ValueError"}

\* Mutant: `except ConnectionError`.
CaughtNetworkOnly(e) == e = "ConnectionError"

\* `except Exception as e`: the clause catches every class above.
Caught(e) == e \in Exceptions

\* ------------------------------------------------------------ indicators
RECURSIVE SumClose(_, _, _)
\* Sum of the Close values of rows lo..hi (all non-NaN).
SumClose(c, lo, hi) ==
  IF lo > hi THEN 0 ELSE c[hi].v + SumClose(c, lo, hi - 1)

RECURSIVE SumSqClose(_, _, _)
SumSqClose(c, lo, hi) ==
  IF lo > hi THEN 0 ELSE c[hi].v * c[hi].v + SumSqClose(c, lo, hi - 1)

RECURSIVE ISqrtIn(_, _, _)
\* The r in lo..hi with r*r <= x < (r+1)*(r+1), by bisection.
ISqrtIn(x, lo, hi) ==
  IF lo >= hi THEN lo
  ELSE LET mid == (lo + hi + 1) \div 2
       IN  IF mid * mid <= x THEN ISqrtIn(x, mid, hi)
           ELSE ISqrtIn(x, lo, mid - 1)
\* Integer square root (floor); x stays below 2^30.
ISqrt(x) == ISqrtIn(x, 0, 32767)

RECURSIVE Pow(_, _)
Pow(b, e) == IF e = 0 THEN 1 ELSE b * Pow(b, e - 1)

\* Rolling(window=w) with the default min_periods = w: a row has a value
\* only when the w rows ending at it exist and none is NaN.
WindowFull(c, i, w) == i >= w /\ \A j \in (i - w + 1)..i : ~c[j].nan

\* Mutant: rolling(window=w, min_periods=1).
RollingMeanMin1(c, i, w) ==
  LET lo == IF i > w THEN i - w + 1 ELSE 1
  IN  IF \A j \in lo..i : ~c[j].nan
      THEN Num((Scale * SumClose(c, lo, i)) \div (i - lo + 1))
      ELSE Null

\* Series.rolling(window=w).mean() at row i (1-based).
RollingMean(c, i, w) ==
  IF WindowFull(c, i, w)
  THEN Num((Scale * SumClose(c, i - w + 1, i)) \div w)
  ELSE Null

\* Series.rolling(window=w).std() at row i: sample standard deviation
\* (ddof = 1), sqrt((w*sum(x^2) - sum(x)^2) / (w*(w-1))).
RollingStd(c, i, w) ==
  IF WindowFull(c, i, w)
  THEN LET s == SumClose(c, i - w + 1, i)
           q == SumSqClose(c, i - w + 1, i)
       IN  Num(ISqrt((Scale * Scale * (w * q - s * s)) \div (w * (w - 1))))
  ELSE Null

RECURSIVE Gap(_, _)
\* Number of consecutive NaN rows directly before row i.
Gap(c, i) == IF i <= 1 \/ ~c[i - 1].nan THEN 0 ELSE 1 + Gap(c, i - 1)

RECURSIVE Ewm(_, _, _)
\* Series.ewm(span=sp, adjust=False).mean() at row i: alpha = 2/(sp+1),
\* min_periods = 0, ignore_na = False.  The first observation starts the
\* average; a NaN row repeats the previous average; after g NaN rows the old
\* average carries weight (1-alpha)^(g+1) against alpha for the new value.
Ewm(c, i, sp) ==
  IF i = 0 THEN Null
  ELSE LET prev == Ewm(c, i - 1, sp)
           g == Gap(c, i)
           oldw == Pow(sp - 1, g + 1)
           neww == 2 * Pow(sp + 1, g)
       IN  IF c[i].nan THEN prev
           ELSE IF prev.nan THEN Num(Scale * c[i].v)
           ELSE Num((oldw * prev.v + neww * Scale * c[i].v) \div (oldw + neww))

\* The Close column of a frame.
CloseOf(df) == [i \in 1..Len(df.rows) |-> df.rows[i].Close]

\* hist['SMA_20'] = ...; hist['EMA_20'] = ...; hist['Volatility'] = ...
\* hist['Close'] raises KeyError when the frame has no such column.
WithIndicators(hist) ==
  IF "Close" \notin hist.columns THEN Raise("KeyError")
  ELSE LET c == CloseOf(hist)
       IN  Ok([columns |-> hist.columns \cup DerivedColumns,
               rows |-> [i \in 1..Len(hist.rows) |->
                          [Close |-> c[i],
                           SMA_20 |-> RollingMean(c, i, Window),
                           EMA_20 |-> Ewm(c, i, Span),
                           Volatility |-> RollingStd(c, i, Window)]]])

\* ------------------------------------------------------------ metrics
\* Python values of the info dict and of the metrics mapping.  A number n of
\* dividendYield stands for the fraction n / 100000 (1230 is 0.0123).
NumV(n) == [kind |-> "num", n |-> n, s |-> ""]
StrV(s) == [kind |-> "str", n |-> 0, s |-> s]
NoneV == [kind |-> "none", n |-> 0, s |-> ""]
\* f"{x:.2f}%" where x is h hundredths: the digits of h \div 100, a point,
\* the two digits of h % 100, and a percent sign.
PctV(h) == [kind |-> "pct", n |-> h, s |-> "%"]
NA == StrV("N/A")

\* Mutant: dict.get(key), the default left out.
GetNone(d, key, default) == IF key \in DOMAIN d THEN d[key] ELSE NoneV

\* dict.get(key, default)
Get(d, key, default) == IF key \in DOMAIN d THEN d[key] ELSE default

\* Truth value of a Python object.
Truthy(x) ==
  CASE x.kind = "num" -> x.n # 0
    [] x.kind = "none" -> FALSE
    [] OTHER -> x.s # ""

\* Round n / d to the nearest integer, ties to even (n >= 0, d > 0).
RoundDiv(n, d) ==
  LET q == n \div d
      r == n % d
  IN  IF 2 * r > d \/ (2 * r = d /\ q % 2 = 1) THEN q + 1 ELSE q

\* Mutant: the yield is formatted whenever the key is there, a zero too.
DividendYieldIfPresent(info) ==
  IF "dividendYield" \in DOMAIN info
  THEN LET x == Get(info, "dividendYield", NumV(0))
       IN  IF x.kind = "num" THEN Ok(PctV(RoundDiv(x.n * 100, 1000)))
           ELSE IF x.kind = "none" THEN Raise("TypeError")
           ELSE Raise("ValueError")
  ELSE Ok(NA)

\* f"{info.get('dividendYield', 0)*100:.2f}%" if info.get('dividendYield')
\* else 'N/A'.  A string times 100 is a string, which ':.2f' refuses.
DividendYield(info) ==
  IF Truthy(Get(info, "dividendYield", NoneV))
  THEN LET x == Get(info, "dividendYield", NumV(0))
       IN  IF x.kind = "num" THEN Ok(PctV(RoundDiv(x.n * 100, 1000)))
           ELSE Raise("ValueError")
  ELSE Ok(NA)

\* The metrics dict literal of fetch_stock_data_safe.
MetricsOf(info) ==
  LET dy == DividendYield(info)
  IN  IF Raised(dy) THEN dy
      ELSE Ok([k \in MetricKeys |->
                 CASE k = "PE Ratio" -> Get(info, "trailingPE", NA)
                   [] k = "Dividend Yield" -> dy.value
                   [] k = "Beta" -> Get(info, "beta", NA)
                   [] k = "Market Cap" -> Get(info, "marketCap", NA)])

\* The mapping returned after the loop: {}.
NoMetrics == [k \in {} |-> NA]

\* Mutant: a failed info query leaves the attempt a success, the history
\* returned with no metrics.
StockBodyHistoryOnly(histR, infoR) ==
  IF Raised(histR) THEN histR
  ELSE IF Raised(infoR) THEN Ok(<<histR.value, NoMetrics>>)
  ELSE LET m == MetricsOf(infoR.value)
       IN  IF Raised(m) THEN m ELSE Ok(<<histR.value, m.value>>)

\* One try body of fetch_stock_data_safe: history, then info, then the
\* metrics; the first exception ends the body.
StockBody(histR, infoR) ==
  IF Raised(histR) THEN histR
  ELSE IF Raised(infoR) THEN infoR
  ELSE LET m == MetricsOf(infoR.value)
       IN  IF Raised(m) THEN m ELSE Ok(<<histR.value, m.value>>)

\* One try body of fetch_index_data_safe.
IndexBody(histR) ==
  IF Raised(histR) THEN histR ELSE WithIndicators(histR.value)

\* ------------------------------------------------------------ financials
Range(seq) == {seq[i] : i \in 1..Len(seq)}

\* Mutant: the listed items that exist are selected, the others skipped.
SelectPresent(stmt, items) ==
  Ok([items |-> SelectSeq(items, LAMBDA x : x \in stmt.items),
      periods |-> stmt.periods])

\* frame.T[[items]]: KeyError when a listed item is not a line of the
\* statement.
Select(stmt, items) ==
  IF Range(items) \subseteq stmt.items THEN Ok([items |-> items,
                                                periods |-> stmt.periods])
  ELSE Raise("KeyError")

\* output1.join(output2).T: a left join on the reporting period, then the
\* transpose: one row per selected line item, one column per period of the
\* balance sheet; an income line has NaN where its statement lacks the period.
JoinT(o1, o2) ==
  [columns |-> o1.periods,
   rows |-> [i \in 1..(Len(o1.items) + Len(o2.items)) |->
     IF i <= Len(o1.items)
     THEN [label |-> o1.items[i], nan |-> {}]
     ELSE [label |-> o2.items[i - Len(o1.items)],
           nan |-> o1.periods \ o2.periods]]]

\* One try body of metrics_table_safe.
TableBody(finR, bsR) ==
  IF Raised(finR) THEN finR
  ELSE IF Raised(bsR) THEN bsR
  ELSE LET output1 == Select(bsR.value, BalanceItems)
           output2 == Select(finR.value, IncomeItems)
       IN  IF Raised(output1) THEN output1
           ELSE IF Raised(output2) THEN output2
           ELSE Ok(JoinT(output1.value, output2.value))

\* ------------------------------------------------------------ provider
\* What the provider can answer.  Close prices rise by one per day from 101;
\* row nullAt (0: none) has no price.
RawFrame(n, nullAt) ==
  [columns |-> OHLCV,
   rows |-> [i \in 1..n |-> [Close |-> IF i = nullAt THEN Null
                                       ELSE Num(100 + i)]]]

RowCounts == {0, 1, Window - 1, Window, MaxRows}
NullAts(n) == {0} \cup ({1, Window, n} \cap 1..n)

\* Every history the provider may return, the column-less frame of an
\* unknown symbol included.
AllHistFrames ==
  {EmptyFrame} \cup {RawFrame(n, a) : <<n, a>> \in
                       {<<n, a>> \in RowCounts \X (0..MaxRows) : a \in NullAts(n)}}

\* Histories for fetch_stock_data_safe, which passes the frame on untouched.
FewHistFrames == {EmptyFrame, RawFrame(1, 0)}
\* The one history used where the cache, not the series, is observed.
OneHistFrame == {RawFrame(1, 0)}

HistOutcomes(frames) == {Raise("ConnectionError")} \cup {Ok(f) : f \in frames}

\* A dict from a set of <<key, value>> pairs with distinct keys.
Dict(pairs) ==
  [k \in {p[1] : p \in pairs} |-> (CHOOSE p \in pairs : p[1] = k)[2]]

\* info dicts: each raw field present with a number, present with None, or
\* absent; dividendYield also zero, a rounding tie, or a string.
AllInfos ==
  {Dict(pe \cup dy \cup rest) :
     pe \in {{}, {<<"trailingPE", NumV(15)>>}, {<<"trailingPE", NoneV>>}},
     dy \in {{}, {<<"dividendYield", NumV(0)>>}, {<<"dividendYield", NumV(1230)>>},
             {<<"dividendYield", NumV(1235)>>}, {<<"dividendYield", NoneV>>},
             {<<"dividendYield", StrV("1.2")>>}},
     rest \in {{}, {<<"beta", NumV(1)>>, <<"marketCap", NumV(1000)>>}}}

OneInfo ==
  {Dict({<<"trailingPE", NumV(15)>>, <<"dividendYield", NumV(1230)>>,
         <<"beta", NumV(1)>>, <<"marketCap", NumV(1000)>>})}

InfoOutcomes(infos) == {Raise("ConnectionError")} \cup {Ok(d) : d \in infos}

\* A statement: its line items and its reporting periods.
Statement(items, periods) == [items |-> items, periods |-> periods]

AllBalanceSheets ==
  {Statement((Range(BalanceItems) \cup {"Cash"}) \ omit, {"2023", "2024"}) :
     omit \in {{}} \cup {{x} : x \in Range(BalanceItems)}}

AllFinancials ==
  {Statement((Range(IncomeItems) \cup {"Net Income"}) \ omit, per) :
     omit \in {{}} \cup {{x} : x \in Range(IncomeItems)},
     per \in {{"2023", "2024"}, {"2024"}}}

OneBalanceSheet == {Statement(Range(BalanceItems), {"2024"})}
OneFinancials == {Statement(Range(IncomeItems), {"2024"})}

StatementOutcomes(stmts) == {Raise("ConnectionError")} \cup {Ok(x) : x \in stmts}

\* ------------------------------------------------------------ state
VARIABLES
  cache,          \* st.cache_data: key -> [value, created]
  now,            \* wall clock, seconds
  pc,             \* position of the script run
  dashboard_type, \* the sidebar radio
  selected,       \* the selectbox of the shown dashboard
  clicked,        \* whether this rerun comes from the retry button
  fn,             \* the fetch function being called
  attempt,        \* loop variable of the retry loop
  result,         \* return value of the current call
  stock_ret,      \* (stock_data, metrics) of display_stock_dashboard
  ui,             \* elements emitted in this render pass
  renders,        \* script reruns so far
  log,            \* history: events of the current call
  t0,             \* history: time the current call began
  lastRun,        \* history: per key, the last call that ran the body
  stale,          \* history: keys dropped by the button, not fetched since
  raw,            \* history: the answer a value was made of, or the exception
  asked,          \* history: queries sent in the current call, per position
  shown,          \* the st.metric elements of this render pass, by label
  origin          \* history: per cache entry, the call that computed it

vars == <<cache, now, pc, dashboard_type, selected, clicked, fn, attempt,
          result, stock_ret, ui, renders, log, t0, lastRun, stale, raw, asked,
          shown, origin>>

NoEntries == [k \in {} |-> 0]

\* Mutant: one entry per function, whatever the symbol.
KeyPerFunction == <<fn, "">>

\* The cache key of the current call.
Key == <<fn, selected>>

\* Mutant: the function is not cached.
FreshNever(c, k, t) == FALSE

\* @st.cache_data(ttl=3600): an entry answers a call while younger than ttl.
Fresh(c, k, t) == k \in DOMAIN c /\ t - c[k].created < TTL

\* Mutant: the empty result of a give-up is not stored.
CacheStoreNonEmpty(c, k, v, t) ==
  IF v = (IF k[1] = "fetch_stock_data_safe"
          THEN <<EmptyFrame, [x \in {} |-> 0]>> ELSE EmptyFrame)
  THEN c
  ELSE [x \in DOMAIN c \cup {k} |->
          IF x = k THEN [value |-> v, created |-> t] ELSE c[x]]

\* @st.cache_data: the value a call returns is stored under its key, with
\* the time of the return.
CacheStore(c, k, v, t) ==
  [x \in DOMAIN c \cup {k} |->
     IF x = k THEN [value |-> v, created |-> t] ELSE c[x]]

\* Mutant: only the entries of the shown dashboard's functions go.
ClearedShown(c) ==
  LET keep == {k \in DOMAIN c :
                 (k[1] = FIndex) # (dashboard_type = "Industry Indices")}
  IN  [k \in keep |-> c[k]]

\* st.cache_data.clear(): every entry of every cached function goes.
Cleared(c) == NoEntries

\* What each function returns after the loop.
EmptyResult(f) == IF f = FStock THEN <<EmptyFrame, NoMetrics>> ELSE EmptyFrame

Init ==
  /\ cache = NoEntries
  /\ now = 0
  /\ pc = "idle"
  /\ dashboard_type = "Industry Indices"
  /\ selected = indices[1]
  /\ clicked = FALSE
  /\ fn = FIndex
  /\ attempt = 0
  /\ result = EmptyFrame
  /\ stock_ret = EmptyResult(FStock)
  /\ ui = <<>>
  /\ renders = 0
  /\ log = <<>>
  /\ t0 = 0
  /\ lastRun = NoEntries
  /\ stale = {}
  /\ raw = <<>>
  /\ asked = <<0, 0>>
  /\ shown = NoEntries
  /\ origin = NoEntries

\* main(): a user interaction reruns the script, w seconds after the last
\* run ended: the radio, the selectbox and the button hold the user's choice.
Rerun(limit, waits) ==
  /\ pc = "idle"
  /\ renders < limit
  /\ \E d \in {"Industry Indices", "Stocks"}, b \in BOOLEAN, w \in waits :
       \E s \in (IF d = "Industry Indices" THEN Indices ELSE Stocks) :
         /\ dashboard_type' = d
         /\ selected' = s
         /\ clicked' = b
         /\ now' = now + w
  /\ ui' = <<"title">>
  /\ renders' = renders + 1
  /\ shown' = NoEntries
  /\ pc' = "button"
  /\ UNCHANGED <<cache, fn, attempt, result, stock_ret, log, t0, lastRun, stale,
                 raw, asked, origin>>

\* if st.button(...): st.cache_data.clear(); then the first fetch is called.
RetryButton ==
  /\ pc = "button"
  /\ IF clicked
     THEN /\ cache' = Cleared(cache)
          /\ stale' = stale \cup DOMAIN cache
          /\ lastRun' = NoEntries
          /\ origin' = NoEntries
     ELSE UNCHANGED <<cache, stale, lastRun, origin>>
  /\ fn' = IF dashboard_type = "Industry Indices" THEN FIndex ELSE FStock
  /\ pc' = "lookup"
  /\ log' = <<>>
  /\ t0' = now
  /\ attempt' = 0
  /\ asked' = <<0, 0>>
  /\ UNCHANGED <<now, dashboard_type, selected, clicked, result, stock_ret,
                 ui, renders, raw, shown>>

\* The cache wrapper: a fresh entry is returned, otherwise the body runs.
CacheLookup ==
  /\ pc = "lookup"
  /\ IF Fresh(cache, Key, now)
     THEN /\ result' = cache[Key].value
          /\ pc' = "ret"
     ELSE /\ pc' = "try"
          /\ UNCHANGED result
  /\ attempt' = 0
  /\ UNCHANGED <<cache, now, dashboard_type, selected, clicked, fn, stock_ret,
                 ui, renders, log, t0, lastRun, stale, raw, asked, shown,
                 origin>>

\* Mutant: one iteration too many.
LoopContinuesOneMore(a) == a < MaxAttempts

\* for attempt in range(5): whether another iteration follows iteration a.
LoopContinues(a) == a + 1 < MaxAttempts

\* Mutant: no delay once the last iteration has failed.
SleepsBetween(a) == IF a + 1 < MaxAttempts THEN <<"sleep">> ELSE <<>>

\* Mutant: a linear back-off, one delay more after every failure.
SleepsBackoff(a) == [i \in 1..(a + 1) |-> "sleep"]

\* Mutant: the except block only warns.
SleepsNever(a) == <<>>

\* The delays of the except block after the failed iteration a:
\* time.sleep(60), whichever iteration failed.
Sleeps(a) == <<"sleep">>

\* The entry stored under key k was computed by the call of f for symbol s.
Computed(o, k, f, s) ==
  [x \in DOMAIN o \cup {k} |-> IF x = k THEN <<f, s>> ELSE o[x]]

\* The queries one try body sends, per position: the queries are sent one
\* after the other, and the first that raises ends the body.
Sent(answer) ==
  <<1, IF Len(answer) >= 2 /\ ~Raised(answer[1]) THEN 1 ELSE 0>>

\* One iteration of the retry loop, the provider having answered `answer`
\* and the try body having ended in r: the value is returned (and the cache
\* stores it), or the except block warns and sleeps and the loop goes on, or
\* the exception leaves the function.  The provider answers well only in
\* the iterations okAt.
Attempt(r, okAt, answer) ==
  /\ Raised(r) \/ attempt \in okAt
  /\ raw' = IF Raised(r) THEN <<r.exc>> ELSE answer
  /\ asked' = <<asked[1] + Sent(answer)[1], asked[2] + Sent(answer)[2]>>
  /\ IF ~Raised(r)
     THEN /\ result' = r.value
          /\ cache' = CacheStore(cache, Key, r.value, now)
          /\ origin' = Computed(origin, Key, fn, selected)
          /\ log' = Append(log, "ok")
          /\ pc' = "ret"
          /\ UNCHANGED <<ui, now, attempt>>
     ELSE IF Caught(r.exc)
     THEN /\ ui' = Append(ui, "warning: Retrying in 60 seconds...")
          /\ log' = Append(log, "fail") \o Sleeps(attempt)
          /\ now' = now + Delay * Len(Sleeps(attempt))
          /\ attempt' = attempt + 1
          /\ pc' = IF LoopContinues(attempt) THEN "try" ELSE "exhausted"
          /\ UNCHANGED <<result, cache, origin>>
     ELSE /\ pc' = "raised"
          /\ log' = Append(log, "raise")
          /\ UNCHANGED <<result, cache, origin, ui, now, attempt>>
  /\ UNCHANGED <<dashboard_type, selected, clicked, fn, stock_ret, renders,
                 t0, lastRun, stale, shown>>

TryIndex(frames, okAt) ==
  /\ pc = "try" /\ fn = FIndex
  /\ \E h \in HistOutcomes(frames) : Attempt(IndexBody(h), okAt, <<h>>)

TryStock(frames, infos, okAt) ==
  /\ pc = "try" /\ fn = FStock
  /\ \E h \in HistOutcomes(frames), i \in InfoOutcomes(infos) :
       Attempt(StockBody(h, i), okAt, <<h, i>>)

TryTable(fins, sheets, okAt) ==
  /\ pc = "try" /\ fn = FTable
  /\ \E f \in StatementOutcomes(fins), b \in StatementOutcomes(sheets) :
       Attempt(TableBody(f, b), okAt, <<f, b>>)

\* After the loop: st.error(...) and the empty result, which the cache
\* stores like any other return value.
GiveUp ==
  /\ pc = "exhausted"
  /\ ui' = Append(ui, "error: Could not fetch")
  /\ result' = EmptyResult(fn)
  /\ cache' = CacheStore(cache, Key, EmptyResult(fn), now)
  /\ origin' = Computed(origin, Key, fn, selected)
  /\ log' = Append(log, "error")
  /\ pc' = "ret"
  /\ UNCHANGED <<now, dashboard_type, selected, clicked, fn, attempt,
                 stock_ret, renders, t0, lastRun, stale, raw, asked, shown>>

\* Mutant: display_stock_dashboard tests the series before it asks for the
\* financial statements.
ReturnEmptyFirst ==
  /\ pc = "ret"
  /\ lastRun' = IF log = <<>> THEN lastRun
                ELSE [x \in DOMAIN lastRun \cup {Key} |->
                        IF x = Key
                        THEN [ret |-> result, at |-> now,
                              exhausted |-> log[Len(log)] = "error"]
                        ELSE lastRun[x]]
  /\ stale' = stale \ {Key}
  /\ IF fn = FStock
     THEN /\ stock_ret' = result
          /\ IF IsEmpty(result[1])
             THEN pc' = "show" /\ UNCHANGED <<fn, log, t0>>
             ELSE fn' = FTable /\ pc' = "lookup" /\ log' = <<>> /\ t0' = now
     ELSE /\ pc' = "show"
          /\ UNCHANGED <<stock_ret, fn, log, t0>>
  /\ asked' = <<0, 0>>
  /\ UNCHANGED <<cache, now, dashboard_type, selected, clicked, attempt,
                 result, ui, renders, raw, shown, origin>>

\* The call returns to the dashboard: display_stock_dashboard goes on to
\* metrics_table_safe, otherwise the result is shown.
Return ==
  /\ pc = "ret"
  /\ lastRun' = IF log = <<>> THEN lastRun
                ELSE [x \in DOMAIN lastRun \cup {Key} |->
                        IF x = Key
                        THEN [ret |-> result, at |-> now,
                              exhausted |-> log[Len(log)] = "error"]
                        ELSE lastRun[x]]
  /\ stale' = stale \ {Key}
  /\ IF fn = FStock
     THEN /\ stock_ret' = result
          /\ fn' = FTable
          /\ pc' = "lookup"
          /\ log' = <<>>
          /\ t0' = now
     ELSE /\ pc' = "show"
          /\ UNCHANGED <<stock_ret, fn, log, t0>>
  /\ asked' = <<0, 0>>
  /\ UNCHANGED <<cache, now, dashboard_type, selected, clicked, attempt,
                 result, ui, renders, raw, shown, origin>>

\* The script run ends: its local variables are gone, and the button reads
\* False until it is pressed again.
Finished ==
  /\ clicked' = FALSE
  /\ fn' = FIndex
  /\ attempt' = 0
  /\ result' = EmptyFrame
  /\ stock_ret' = EmptyResult(FStock)
  /\ log' = <<>>
  /\ t0' = now
  /\ raw' = <<>>
  /\ asked' = <<0, 0>>

\* display_index_dashboard after the fetch.
ShowIndex ==
  /\ pc = "show" /\ dashboard_type = "Industry Indices"
  /\ ui' = IF IsEmpty(result)
           THEN Append(ui, "warning: No data available.")
           ELSE IF OHLCV \cup DerivedColumns \subseteq result.columns
           THEN ui \o <<"write", "dataframe", "line_chart">>
           ELSE ui \o <<"write", "KeyError">>
  /\ pc' = "idle"
  /\ Finished
  /\ UNCHANGED <<cache, now, dashboard_type, selected, renders, lastRun, stale,
                 shown, origin>>

\* The labels of the four st.metric elements, in the order of the calls.
MetricLabels == <<"PE Ratio", "Dividend Yield", "Beta", "Market Cap">>

\* Mutant: metrics[key], which raises on a key that is not there.
MetricValueSubscript(metrics, key) ==
  IF key \in DOMAIN metrics THEN Ok(metrics[key]) ELSE Raise("KeyError")

\* value=metrics.get(key, 'N/A')
MetricValue(metrics, key) == Ok(Get(metrics, key, NA))

\* The four st.metric calls: the elements up to the first call whose value
\* raises.  Each element holds its value and whether the mapping lacked
\* the key.
Metrics(metrics) ==
  LET bad == {i \in 1..4 : Raised(MetricValue(metrics, MetricLabels[i]))}
      n == IF bad = {} THEN 4 ELSE (CHOOSE i \in bad : \A j \in bad : i <= j) - 1
  IN  [ui |-> SubSeq(<<"metric", "metric", "metric", "metric">>, 1, n)
                \o (IF bad = {} THEN <<>> ELSE <<"KeyError">>),
       shown |-> [k \in {MetricLabels[i] : i \in 1..n} |->
                    [value |-> MetricValue(metrics, k).value,
                     missing |-> k \notin DOMAIN metrics]]]

\* display_stock_dashboard after both fetches.
ShowStock ==
  /\ pc = "show" /\ dashboard_type = "Stocks"
  /\ IF IsEmpty(stock_ret[1])
     THEN /\ ui' = Append(ui, "warning: No stock data available.")
          /\ UNCHANGED shown
     ELSE IF OHLCV \subseteq stock_ret[1].columns
     THEN LET m == Metrics(stock_ret[2])
          IN  /\ ui' = ui \o <<"write", "dataframe", "title", "dataframe">>
                          \o m.ui
                          \o (IF Len(m.ui) = 4 /\ m.ui[4] = "metric"
                              THEN <<"line_chart">> ELSE <<>>)
              /\ shown' = m.shown
     ELSE /\ ui' = ui \o <<"write", "KeyError">>
          /\ UNCHANGED shown
  /\ pc' = "idle"
  /\ Finished
  /\ UNCHANGED <<cache, now, dashboard_type, selected, renders, lastRun, stale,
                 origin>>

\* One script run over everything the provider may answer, each iteration
\* of a retry loop free to fail or succeed.
Next ==
  \/ Rerun(1, {0})
  \/ RetryButton
  \/ CacheLookup
  \/ TryIndex(AllHistFrames, 0..(MaxAttempts - 1))
  \/ TryStock(FewHistFrames, AllInfos, 0..(MaxAttempts - 1))
  \/ TryTable(AllFinancials, AllBalanceSheets, 0..(MaxAttempts - 1))
  \/ GiveUp
  \/ Return
  \/ ShowIndex
  \/ ShowStock

Spec == Init /\ [][Next]_vars

\* MaxRenders script runs, the user waiting nothing or a full ttl between
\* them; during one call the provider answers at once or stays down.
CacheNext ==
  \/ Rerun(MaxRenders, {0, TTL})
  \/ RetryButton
  \/ CacheLookup
  \/ TryIndex(OneHistFrame, {0})
  \/ TryStock(OneHistFrame, OneInfo, {0})
  \/ TryTable(OneFinancials, OneBalanceSheet, {0})
  \/ GiveUp
  \/ Return
  \/ ShowIndex
  \/ ShowStock

CacheSpec == Init /\ [][CacheNext]_vars

\* Values of the shapes the three functions return: a series without
\* columns, without rows, or with a row; a mapping with any of the four
\* keys; a table or the empty frame.
Returns(f) ==
  CASE f = FIndex ->
         {EmptyFrame} \cup {WithIndicators(RawFrame(n, 0)).value : n \in {0, 1}}
    [] f = FStock ->
         {<<h, [k \in present |-> NumV(15)]>> :
            h \in {EmptyFrame, RawFrame(0, 0), RawFrame(1, 0)},
            present \in SUBSET MetricKeys}
    [] f = FTable ->
         {EmptyFrame} \cup {TableBody(Ok(x), Ok(y)).value :
                              x \in OneFinancials, y \in OneBalanceSheet}

\* The call of a fetch function, seen from the dashboard: it returns a value.
AnyFetch ==
  /\ pc = "lookup"
  /\ \E v \in Returns(fn) : result' = v
  /\ pc' = "ret"
  /\ UNCHANGED <<cache, now, dashboard_type, selected, clicked, fn, attempt,
                 stock_ret, ui, renders, log, t0, lastRun, stale, raw, asked,
                 shown, origin>>

\* One script run of the dashboards, over the fetch functions as they are
\* and over any fetch layer that returns values of the same shapes.
DisplayNext ==
  \/ Rerun(1, {0})
  \/ RetryButton
  \/ CacheLookup
  \/ TryIndex(AllHistFrames, 0..(MaxAttempts - 1))
  \/ TryStock(FewHistFrames, AllInfos, 0..(MaxAttempts - 1))
  \/ TryTable(AllFinancials, AllBalanceSheets, 0..(MaxAttempts - 1))
  \/ GiveUp
  \/ Return
  \/ AnyFetch
  \/ ShowIndex
  \/ ShowStock

DisplaySpec == Init /\ [][DisplayNext]_vars

\* ------------------------------------------------------------ properties
Count(l, e) == Cardinality({i \in 1..Len(l) : l[i] = e})
\* Provider attempts and delays of the current call.
Attempts(l) == Count(l, "ok") + Count(l, "fail") + Count(l, "raise")
Delays(l) == Count(l, "sleep")
Last(l) == l[Len(l)]

RECURSIVE FailSleep(_)
\* k failed attempts, each followed by one delay.
FailSleep(k) == IF k = 0 THEN <<>> ELSE <<"fail", "sleep">> \o FailSleep(k - 1)

InCall == pc \in {"lookup", "try", "exhausted", "ret"}
\* The current call ran the function body and has returned.
Ran == pc = "ret" /\ log # <<>>
Exhausted == Ran /\ Count(log, "fail") = 5

\* What the try body of the current function makes of the answer `raw`.
BodyOf(f, answer) ==
  CASE f = FIndex -> IndexBody(answer[1])
    [] f = FStock -> StockBody(answer[1], answer[2])
    [] f = FTable -> TableBody(answer[1], answer[2])

\* C1: an uncached call of any of the three functions makes between 1 and 5
\* provider attempts, makes no attempt after a success, and always returns
\* (it never raises, and every state inside a call has a next step); a
\* success in the first attempt means one attempt and no delay.
C1_AttemptsBounded ==
  /\ Attempts(log) <= 5
  /\ \A i \in 1..Len(log) : log[i] = "ok" => i = Len(log)
  /\ pc = "try" => Attempts(log) < 5 /\ Count(log, "ok") = 0
  /\ Ran => /\ Attempts(log) >= 1
            /\ log[1] = "ok" => Attempts(log) = 1 /\ Delays(log) = 0 /\ now = t0
  /\ pc # "raised"
  /\ InCall => ENABLED Next

C1_Witness ==
  Ran /\ fn = FTable /\ log = FailSleep(2) \o <<"ok">>

\* C2: no provider failure leaves a fetch function as an exception; when all
\* 5 attempts have failed the function has shown the terminal error and
\* returns the empty result (for the stock function an empty frame and an
\* empty mapping).
C2_NoEscape ==
  /\ pc # "raised"
  /\ Count(log, "raise") = 0
  /\ Exhausted =>
       /\ Last(log) = "error"
       /\ Last(ui) = "error: Could not fetch"
       /\ IF fn = FStock
          THEN IsEmpty(result[1]) /\ DOMAIN result[2] = {}
          ELSE IsEmpty(result)

C2_Witness ==
  Exhausted /\ fn = FStock /\ result = <<EmptyFrame, NoMetrics>>

\* C3 as stated: after 5 failed attempts the function returns the empty
\* result and has slept exactly 4 times, never after the last attempt.
C3_FourDelays ==
  Exhausted =>
    /\ result = EmptyResult(fn)
    /\ Delays(log) = 4
    /\ log[Len(log) - 1] # "sleep"

\* C3 as amended: after 5 failed attempts the function returns the empty
\* result and has slept exactly 5 times, once after every failed attempt,
\* the last one included: 300 seconds in all.
C3_FiveDelays ==
  Exhausted =>
    /\ result = EmptyResult(fn)
    /\ log = FailSleep(5) \o <<"error">>
    /\ now - t0 = 5 * 60

C3_Witness ==
  Exhausted /\ fn = FIndex /\ Delays(log) = 5

\* C4: when the provider fails 4 times and then answers, the function
\* returns what the fifth attempt made of the answer (not the empty result
\* of a give-up, and with rows whenever the answered history has rows), has
\* slept exactly 4 times 60 seconds, each time between a failed attempt and
\* the next attempt, and shows no terminal error.
C4_FourRetries ==
  (Ran /\ Count(log, "fail") = 4 /\ Last(log) = "ok") =>
    /\ log = FailSleep(4) \o <<"ok">>
    /\ now - t0 = 4 * 60
    /\ Count(log, "error") = 0
    /\ result = BodyOf(fn, raw).value
    /\ result # EmptyResult(fn)
    /\ fn = FIndex => (IsEmpty(result) <=> IsEmpty(raw[1].value))
    /\ fn = FStock => result[1] = raw[1].value
    /\ fn = FTable => ~IsEmpty(result)

C4_Witness ==
  /\ Ran /\ fn = FStock /\ log = FailSleep(4) \o <<"ok">>
  /\ ~IsEmpty(result[1])

\* The current call has returned, and the last call of the same key that ran
\* the function body returned less than ttl seconds before this call began,
\* with no press of a retry button since.
PriorRun == pc = "ret" /\ Key \in DOMAIN lastRun /\ t0 - lastRun[Key].at < 3600

\* C5 as stated: a call that gave up leaves no cache entry for its key, and
\* the next call of the key within the ttl contacts the provider again.
C5_OnlySuccessCached ==
  /\ Exhausted => Key \notin DOMAIN cache
  /\ (PriorRun /\ lastRun[Key].exhausted) => Attempts(log) >= 1

\* C5 as amended: the cache holds whatever the function returned, the empty
\* result of a give-up included; the next call of the key within the ttl,
\* with no press of a retry button in between, returns that stored empty
\* result without contacting the provider.
C5_EmptyResultCached ==
  /\ Exhausted =>
       /\ Key \in DOMAIN cache
       /\ cache[Key] = [value |-> EmptyResult(fn), created |-> now]
  /\ (PriorRun /\ lastRun[Key].exhausted) =>
       /\ Attempts(log) = 0
       /\ result = EmptyResult(fn)

C5_Witness ==
  PriorRun /\ lastRun[Key].exhausted /\ fn = FIndex

\* C6: of two calls of one key that follow each other within the ttl of the
\* entry, with no press of a retry button in between, only the first can run
\* the function body: the second makes no provider attempt, sleeps for no
\* delay, and returns the very result of the first.
C6_CacheIdempotent ==
  PriorRun =>
    /\ Attempts(log) = 0
    /\ Delays(log) = 0
    /\ now = t0
    /\ result = lastRun[Key].ret

C6_Witness ==
  PriorRun /\ ~lastRun[Key].exhausted /\ fn = FTable /\ ~IsEmpty(result)

\* C7: a press of either retry button empties the cache of all three
\* functions, before the fetch of that script run starts; a key dropped that
\* way has no entry until it is fetched again, and that fetch contacts the
\* provider.
C7_GlobalInvalidation ==
  /\ \A k \in stale : k \in DOMAIN cache => (k = Key /\ pc = "ret")
  /\ (pc = "ret" /\ Key \in stale) => Attempts(log) >= 1
  /\ (clicked /\ pc \in {"lookup", "try", "exhausted"} /\ fn # FTable) =>
       DOMAIN cache = {}

\* A stock entry dropped by the button of the index dashboard is fetched
\* again in a later run.
C7_Witness ==
  pc = "ret" /\ Key \in stale /\ ~clicked /\ fn = FStock

\* The raw info field each metric is read from.
RawField(k) ==
  CASE k = "PE Ratio" -> "trailingPE"
    [] k = "Dividend Yield" -> "dividendYield"
    [] k = "Beta" -> "beta"
    [] k = "Market Cap" -> "marketCap"

\* C8 as stated: every metrics mapping fetch_stock_data_safe returns, after
\* a success or after 5 failed attempts, has all four keys.
C8_AllKeysAlways ==
  (pc = "ret" /\ fn = FStock) => DOMAIN result[2] = MetricKeys

\* C8 as amended: the mapping returned after a successful attempt has all
\* four keys, with 'N/A' for every field the info dict lacks; the mapping
\* returned after 5 failed attempts is empty and has none of the keys.
C8_KeysOnSuccess ==
  (Ran /\ fn = FStock) =>
    IF Last(log) = "ok"
    THEN /\ DOMAIN result[2] = MetricKeys
         /\ \A k \in MetricKeys :
              RawField(k) \notin DOMAIN raw[2].value => result[2][k] = NA
    ELSE /\ Exhausted
         /\ DOMAIN result[2] = {}

C8_Witness ==
  /\ Ran /\ fn = FStock /\ Last(log) = "ok"
  /\ DOMAIN raw[2].value = {"beta", "marketCap"}
  /\ result[2]["PE Ratio"] = NA /\ result[2]["Beta"] = NumV(1)

Derived(row) == <<row.SMA_20, row.EMA_20, row.Volatility>>

\* C9 as stated: in a non-empty series returned by fetch_index_data_safe the
\* three derived fields are null in the first 19 rows and defined in every
\* later row.
C9_NullFirst19 ==
  (Ran /\ fn = FIndex /\ Last(log) = "ok" /\ ~IsEmpty(result)) =>
    \A i \in 1..Len(result.rows) : \A k \in 1..3 :
      Derived(result.rows[i])[k].nan <=> i <= 19

\* C9 as amended: SMA_20 and Volatility are null in the first 19 rows, and in
\* a later row they are defined exactly when none of the 20 closes of its
\* window is null; EMA_20 is defined in every row from the first row with a
\* close on, so already in the first row of a series without null closes.
C9_NullByWindow ==
  (Ran /\ fn = FIndex /\ Last(log) = "ok" /\ ~IsEmpty(result)) =>
    \A i \in 1..Len(result.rows) :
      LET row == result.rows[i]
          full == i >= 20 /\ \A j \in (i - 19)..i : ~result.rows[j].Close.nan
      IN  /\ row.SMA_20.nan <=> ~full
          /\ row.Volatility.nan <=> ~full
          /\ row.EMA_20.nan <=> \A j \in 1..i : result.rows[j].Close.nan

C9_Witness ==
  /\ Ran /\ fn = FIndex /\ Len(result.rows) > 20
  /\ \A i \in 1..Len(result.rows) : ~result.rows[i].Close.nan
  /\ ~result.rows[1].EMA_20.nan
  /\ result.rows[19].SMA_20.nan /\ ~result.rows[20].SMA_20.nan
  /\ result.rows[19].Volatility.nan /\ ~result.rows[21].Volatility.nan

Labels(df) == [i \in 1..Len(df.rows) |-> df.rows[i].label]

\* C10: metrics_table_safe returns a table of all seven line items, made of
\* an answer that has all seven, or the empty table after 5 failed attempts,
\* never a table of some of the items; an attempt that meets a missing item
\* (KeyError) fails like any other: a delay follows, and then the next
\* attempt while attempts are left.
C10_AllOrNothing ==
  /\ (pc = "ret" /\ fn = FTable) =>
       \/ /\ Labels(result) = BalanceItems \o IncomeItems
          /\ Ran => /\ Last(log) = "ok"
                    /\ Range(IncomeItems) \subseteq raw[1].value.items
                    /\ Range(BalanceItems) \subseteq raw[2].value.items
       \/ /\ result = EmptyFrame
          /\ Ran => Exhausted
  /\ (InCall /\ fn = FTable /\ raw = <<"KeyError">>) =>
       /\ attempt >= 1
       /\ log = FailSleep(attempt) \o (IF pc = "ret" THEN <<"error">> ELSE <<>>)
       /\ pc = (IF attempt < 5 THEN "try"
                ELSE IF Last(log) = "error" THEN "ret" ELSE "exhausted")

\* A missing line item made the second attempt fail; the third is due.
C10_Witness ==
  /\ pc = "try" /\ fn = FTable /\ raw = <<"KeyError">>
  /\ attempt = 2 /\ log = FailSleep(2)

\* C11: in fetch_stock_data_safe every attempt sends the history query anew,
\* and the info query once the history has arrived; the failure of either
\* query is one failed attempt of the one budget of 5; a returned pair is
\* made of the history and the info of one and the same attempt, the last;
\* and when all attempts failed the frame returned is the empty one, whatever
\* history a failed attempt had obtained.
C11_OneAttemptBothQueries ==
  (InCall /\ fn = FStock) =>
    /\ asked[1] = Attempts(log)
    /\ asked[2] <= asked[1]
    /\ asked[1] <= 5
    /\ Count(log, "fail") = asked[1] - Count(log, "ok")
    /\ pc = "try" => attempt = asked[1]
    /\ (Ran /\ Last(log) = "ok") =>
         /\ ~Raised(raw[1]) /\ ~Raised(raw[2])
         /\ asked[2] >= 1
         /\ result = <<raw[1].value, MetricsOf(raw[2].value).value>>
    /\ Exhausted => asked[1] = 5 /\ result = <<EmptyFrame, NoMetrics>>

\* The first attempt failed at the history, the second at the info, the
\* third returned both.
C11_Witness ==
  /\ Ran /\ fn = FStock /\ log = FailSleep(2) \o <<"ok">>
  /\ asked = <<3, 2>>
  /\ ~IsEmpty(result[1])

\* The raw dividendYield is missing (no such key, or None) or zero.
NoYield(info) ==
  \/ "dividendYield" \notin DOMAIN info
  \/ info["dividendYield"].kind = "none"
  \/ info["dividendYield"].kind = "num" /\ info["dividendYield"].n = 0

\* C12: in a mapping made by a successful attempt, 'Dividend Yield' is 'N/A'
\* exactly when the raw dividendYield is missing or zero; otherwise the raw
\* value is a number and the entry is that fraction times 100 as a percent
\* string of two decimals, the nearest hundredth of a percent (0.0123 gives
\* '1.23%').
C12_DividendYield ==
  (Ran /\ fn = FStock /\ Last(log) = "ok") =>
    LET info == raw[2].value
        dy == result[2]["Dividend Yield"]
    IN  /\ dy = NA <=> NoYield(info)
        /\ ~NoYield(info) =>
             /\ info["dividendYield"].kind = "num"
             /\ dy.kind = "pct" /\ dy.s = "%"
             /\ 10 * dy.n - info["dividendYield"].n \in -5..5
        /\ info = [dividendYield |-> NumV(1230)] => dy = PctV(123)

\* A raw yield of 0.0123, alone in the info dict, comes back as '1.23%'.
C12_Witness ==
  /\ Ran /\ fn = FStock /\ Last(log) = "ok"
  /\ raw[2].value = [dividendYield |-> NumV(1230)]
  /\ result[2]["Dividend Yield"] = PctV(123)

\* C13: at every point of a call that runs the function body, each failed
\* attempt so far is directly followed by one delay of 60 seconds, the fifth
\* failed attempt too; so there are as many delays as failed attempts, the
\* time the call has taken is 60 seconds per delay, and never more than 300.
C13_DelayPerFailure ==
  InCall =>
    /\ Delays(log) = Count(log, "fail")
    /\ \A i \in 1..Len(log) :
         log[i] = "fail" => i < Len(log) /\ log[i + 1] = "sleep"
    /\ now - t0 = 60 * Delays(log)
    /\ now - t0 <= 5 * 60
    /\ pc = "exhausted" => log[9] = "fail" /\ log[10] = "sleep"

\* The fifth attempt of metrics_table_safe has failed and the fifth delay
\* has passed; the terminal error is still to come.
C13_Witness ==
  /\ pc = "exhausted" /\ fn = FTable
  /\ Count(log, "fail") = 5 /\ Delays(log) = 5
  /\ now - t0 = 300

\* What a dashboard renders of a non-empty result.
Rendered == {"write", "dataframe", "metric", "line_chart"}

\* C14: when a dashboard comes to show a series that is empty (no columns
\* or no rows), all it emits is its 'no data' warning: the pass has no
\* text, no data table, no financials table, no metric and no chart, and
\* no title but the one of the dashboard; and no mapping makes the metric
\* display raise: a non-empty series is followed by all four metrics and
\* the chart, each metric showing the value of its key, or 'N/A' when the
\* mapping has no such key.
C14_NothingToRender ==
  [][pc = "show" =>
       LET series == IF dashboard_type = "Stocks" THEN stock_ret[1] ELSE result
           emitted == SubSeq(ui', Len(ui) + 1, Len(ui'))
       IN  /\ "KeyError" \notin Range(emitted)
           /\ (series.columns = {} \/ series.rows = <<>>) =>
                /\ emitted = <<IF dashboard_type = "Stocks"
                               THEN "warning: No stock data available."
                               ELSE "warning: No data available.">>
                /\ Range(ui') \cap Rendered = {}
                /\ Count(ui', "title") = 1
                /\ DOMAIN shown' = {}
           /\ (series.columns # {} /\ series.rows # <<>>) =>
                /\ Last(emitted) = "line_chart"
                /\ dashboard_type = "Stocks" =>
                     /\ Count(emitted, "metric") = 4
                     /\ DOMAIN shown' = MetricKeys
                     /\ \A k \in MetricKeys :
                          shown'[k].value = IF k \in DOMAIN stock_ret[2]
                                            THEN stock_ret[2][k] ELSE NA
  ]_vars

\* A mapping with two of the four keys has been displayed, chart included.
C14_Witness ==
  /\ pc = "idle" /\ dashboard_type = "Stocks" /\ Last(ui) = "line_chart"
  /\ shown["Beta"] = [value |-> NA, missing |-> TRUE]
  /\ shown["Market Cap"].missing
  /\ ~shown["PE Ratio"].missing /\ ~shown["Dividend Yield"].missing

RECURSIVE Retrying(_)
\* The warnings of k failed attempts.
Retrying(k) ==
  IF k = 0 THEN <<>>
  ELSE <<"warning: Retrying in 60 seconds...">> \o Retrying(k - 1)

\* C15: in a script run that starts with an empty cache, the stock dashboard
\* has called both fetch_stock_data_safe and metrics_table_safe for the
\* selected ticker by the time it tests the series (both have their cache
\* entry), and 'No stock data available.' is the last thing of the pass;
\* when every attempt of the pass failed, the pass shows 5 retry warnings
\* and a terminal error for each of the two functions, one after the other,
\* has spent 10 delays of 60 seconds, and then shows the 'no data' warning;
\* a pass that ends with this warning has fetched the financial statements
\* and rendered nothing of them.
C15_TwoLoopsBeforeCheck ==
  LET nodata == "warning: No stock data available."
      failed == <<"title">> \o Retrying(5) \o <<"error: Could not fetch">>
                           \o Retrying(5) \o <<"error: Could not fetch">>
  IN  /\ (dashboard_type = "Stocks" /\ pc = "show") =>
           {<<FStock, selected>>, <<FTable, selected>>} \subseteq DOMAIN cache
      /\ (InCall /\ fn = FStock) => <<FTable, selected>> \notin DOMAIN cache
      /\ \A i \in 1..Len(ui) : ui[i] = nodata => pc = "idle" /\ i = Len(ui)
      /\ (dashboard_type = "Stocks" /\ pc \in {"show", "idle"}
            /\ Count(ui, "error: Could not fetch") = 2) =>
           /\ Count(ui, "warning: Retrying in 60 seconds...") = 10
           /\ now = 10 * 60
           /\ ui = failed \o (IF pc = "idle" THEN <<nodata>> ELSE <<>>)
      /\ (pc = "idle" /\ ui # <<>> /\ Last(ui) = nodata) =>
           /\ <<FTable, selected>> \in DOMAIN cache
           /\ Range(ui) \cap Rendered = {}

\* Ten failed attempts and ten delays, then the warning.
C15_Witness ==
  /\ pc = "idle" /\ dashboard_type = "Stocks"
  /\ Count(ui, "warning: Retrying in 60 seconds...") = 10
  /\ now = 600
  /\ Last(ui) = "warning: No stock data available."
  /\ cache[<<FTable, selected>>].value = EmptyFrame

\* C16: the entry that answers a call, or that the call stores, was
\* computed by a call of the same function for the same symbol, and the
\* call returns the value of that entry; so no call gets what was computed
\* for another symbol, and fetch_stock_data_safe and metrics_table_safe
\* never get each other's entry for their common ticker.  A call whose
\* function and symbol have not been fetched since the start or the last
\* press of a retry button contacts the provider, whatever else is cached.
C16_KeyIsolation ==
  /\ pc = "ret" =>
       /\ Key \in DOMAIN cache /\ Key \in DOMAIN origin
       /\ origin[Key] = <<fn, selected>>
       /\ result = cache[Key].value
  /\ (pc = "ret" /\ <<fn, selected>> \notin DOMAIN lastRun) =>
       Attempts(log) >= 1
  /\ \A k \in DOMAIN cache : k \in DOMAIN origin /\ origin[k] = k

\* The first index, and the ticker for both of its functions, are cached and
\* fresh; the first fetch of the second index has contacted the provider.
C16_Witness ==
  /\ pc = "ret" /\ fn = FIndex /\ selected = indices[2]
  /\ <<FIndex, indices[2]>> \notin DOMAIN lastRun
  /\ DOMAIN lastRun = {<<FIndex, indices[1]>>, <<FStock, stocks[1]>>,
                       <<FTable, stocks[1]>>}
  /\ \A k \in DOMAIN lastRun : Fresh(cache, k, now)
  /\ Attempts(log) >= 1
  /\ ~IsEmpty(result)

====
